---- MODULE Spec2Model ----
(***************************************************************************)
(* Model of the card/category web application: the MySQL store (schema,   *)
(* users, categories, cards), the express sessions, the startup chain     *)
(* (connectWithRetry, ensureSchema, listen) and the HTTP handlers of      *)
(* app/server.js.  A handler that awaits one statement is one action; the *)
(* register handler awaits three statements and is three actions, so      *)
(* that other requests interleave between them as they do on the event    *)
(* loop.  Every statement takes an input dbOk: FALSE is the pool          *)
(* rejecting the query (database unavailable).                            *)
(***************************************************************************)
EXTENDS Integers, FiniteSets, Sequences, TLC

\* ------------------------------------------------------------------ bounds
MaxCards == 1

\* ------------------------------------------------------- program constants
Retries == 10

\* ------------------------------------------------------------ input values
Sessions == {"s1", "s2"}
Clients == {"s1"}
Empty == ""

\* The default category, 'Général' in the source (written without accents
\* here, as are the messages).
General == "General"

\* POST /login bodies: <<email, password>>
LoginForms ==
  {<<"a@x", "p1">>, <<"a@x", "p2">>, <<"b@x", "p1">>, <<"b@x", "p2">>,
   <<Empty, "p1">>, <<"a@x", Empty>>}

\* POST /register bodies: <<name, email, password>>
RegisterForms ==
  {<<"n", "a@x", "p1">>, <<"n", "b@x", "p1">>,
   <<Empty, "a@x", "p1">>, <<"n", Empty, "p1">>, <<"n", "a@x", Empty>>}

\* POST /cards and POST /cards/:id bodies: <<title, content>>
CardTexts == {<<"t1", "c1">>, <<Empty, "c1">>, <<"t1", Empty>>}

\* categoryId of a card form: absent, or the id of a category
CategoryIds == {0, 1}

\* POST /categories bodies: name
CategoryNames == {General, Empty}

\* A request is <<body, dbOk>>.  The pool rejecting the statement (dbOk
\* FALSE) gives the same step whatever valid body was sent, so one body
\* stands for them.
Requests(bodies, valid) == (bodies \X {TRUE}) \cup {<<valid, FALSE>>}

LoginRequests == Requests(LoginForms, <<"a@x", "p1">>)

RegisterRequests == Requests(RegisterForms, <<"n", "a@x", "p1">>)

CardRequests == Requests(CardTexts \X CategoryIds, <<<<"t1", "c1">>, 0>>)

CategoryRequests == Requests(CategoryNames, General)

Anonymous == 0
Absent == 0
NULL == -1

\* ------------------------------------------------------------------- state
VARIABLES
  phase,           \* "connecting" | "bootstrapping" | "listening" | "exited"
  attempt,         \* loop variable of connectWithRetry
  schema,          \* the schema objects the database holds
  users,           \* rows of table users
  categories,      \* rows of table categories
  cards,           \* rows of table cards
  autoInc,         \* AUTO_INCREMENT counter of each table
  session,         \* session -> req.session.userId (Anonymous when unset)
  pending,         \* session -> the register request in flight on it
  resp             \* the step last taken: the request and its response

vars == <<phase, attempt, schema, users, categories, cards, autoInc, session,
          pending, resp>>

store == <<schema, users, categories, cards, autoInc>>

\* ------------------------------------------------------------------ schema
\* db/schema.sql: every table with its foreign keys.
SchemaFile ==
  {"users", "categories", "cards", "favorites", "cards.category_id",
   "fk_categories_user", "fk_cards_user", "fk_cards_category"}

\* A store created before categories existed: users and cards only.
SchemaLegacy == {"users", "cards", "fk_cards_user"}

\* A database with no tables.
SchemaEmpty == {}

\* ------------------------------------------------------------------ bcrypt
Hash(password) == <<"bcrypt", password>>

\* Mutant of Compare: any password matches.
CompareAlways(password, hash) == TRUE

Compare(password, hash) == hash = Hash(password)

\* ------------------------------------------------------------- SQL helpers
\* Mutant of UsersByEmail: the email column matches no row (no WHERE match,
\* no UNIQUE key).
UsersByEmailNone(email) == {}

\* SELECT id, password_hash FROM users WHERE email = ?
UsersByEmail(email) == {u \in users : u.email = email}

\* Mutant of EmailTaken: the existence check of register is skipped.
EmailTakenNever(email) == FALSE

\* existing.length > 0
EmailTaken(email) == UsersByEmail(email) # {}

\* Mutant of HasGeneral: the NOT EXISTS subquery never finds the row.
HasGeneralNever(cats, uid) == FALSE

\* c.user_id = u.id AND c.name = 'General'
HasGeneral(cats, uid) == \E c \in cats : c.user_id = uid /\ c.name = General

\* UNIQUE KEY uniq_category_user (user_id, name)
CategoryExists(uid, name) ==
  \E c \in categories : c.user_id = uid /\ c.name = name

\* categoryId || null
OrNull(categoryId) == IF categoryId = Absent THEN NULL ELSE categoryId

\* CONSTRAINT fk_cards_category FOREIGN KEY (category_id) REFERENCES categories(id)
FkCardsCategoryOk(category_id) ==
  \/ "fk_cards_category" \notin schema
  \/ category_id = NULL
  \/ \E c \in categories : c.id = category_id

Idle == [pc |-> "idle"]

Min(S) == CHOOSE x \in S : \A y \in S : x <= y

\* INSERT INTO categories (user_id, name) SELECT u.id, 'General' FROM users u
\* WHERE NOT EXISTS (...): one row, with the next id, per user in `todo`.
RECURSIVE BackfillRows(_, _, _)
BackfillRows(todo, cats, last) ==
  IF todo = {} THEN [rows |-> cats, last |-> last]
  ELSE LET uid == Min(todo) IN
       BackfillRows(todo \ {uid},
                    cats \cup {[id |-> last + 1, user_id |-> uid, name |-> General]},
                    last + 1)

\* Mutant of Backfill: a default category for every user, WHERE dropped.
BackfillAll(us, cats, last) == BackfillRows({u.id : u \in us}, cats, last)

Backfill(us, cats, last) ==
  BackfillRows({u.id : u \in {v \in us : ~HasGeneral(cats, v.id)}}, cats, last)

\* ------------------------------------------------------------------- Init
LegacyUser == [id |-> 1, name |-> "n", email |-> "a@x", password_hash |-> Hash("p1")]

Init ==
  /\ phase = "connecting"
  /\ attempt = 1
  /\ schema \in {SchemaFile, SchemaLegacy, SchemaEmpty}
  /\ users \in (IF schema = SchemaLegacy THEN {{}, {LegacyUser}} ELSE {{}})
  /\ categories = {}
  /\ cards = {}
  /\ autoInc = [users |-> Cardinality(users), categories |-> 0, cards |-> 0]
  /\ session = [s \in Sessions |-> Anonymous]
  /\ pending = [s \in Sessions |-> Idle]
  /\ resp = [op |-> "start"]

\* ---------------------------------------------------------------- startup
\* Mutant of ConnectAttempt: the last failed attempt is not thrown, the loop
\* tries again.
ConnectAttemptNoThrow(dbOk) ==
  /\ phase = "connecting"
  /\ phase' = IF dbOk THEN "bootstrapping" ELSE "connecting"
  /\ attempt' = IF dbOk \/ attempt = Retries THEN attempt ELSE attempt + 1
  /\ resp' = [op |-> "connect", ok |-> dbOk, attempt |-> attempt]
  /\ UNCHANGED <<store, session, pending>>

\* One pass of the loop of connectWithRetry: createPool and SELECT 1.
ConnectAttempt(dbOk) ==
  /\ phase = "connecting"
  /\ IF dbOk
       THEN /\ phase' = "bootstrapping"
            /\ attempt' = attempt
       ELSE IF attempt = Retries
              THEN /\ phase' = "exited"
                   /\ attempt' = attempt
              ELSE /\ phase' = "connecting"
                   /\ attempt' = attempt + 1
  /\ resp' = [op |-> "connect", ok |-> dbOk, attempt |-> attempt]
  /\ UNCHANGED <<store, session, pending>>

\* ensureSchema, then app.listen; a rejected statement ends in process.exit(1).
\* failAt = k: the pool rejects the k-th statement (0: none).
EnsureSchema(failAt) ==
  LET s1 == schema \cup {"categories"}
      ok2 == failAt # 1
      needCol == "cards.category_id" \notin s1
      ok3 == ok2 /\ failAt # 2
      okAlter == ok3 /\ (needCol => (failAt # 3 /\ "cards" \in s1))
      s3 == IF ok3 /\ needCol /\ okAlter THEN s1 \cup {"cards.category_id"} ELSE s1
      okIns == okAlter /\ failAt # 4 /\ "users" \in s3
      bf == Backfill(users, categories, autoInc.categories)
  IN
  /\ phase = "bootstrapping"
  /\ schema' = IF failAt = 1 THEN schema ELSE s3
  /\ categories' = IF okIns THEN bf.rows ELSE categories
  /\ autoInc' = IF okIns THEN [autoInc EXCEPT !.categories = bf.last] ELSE autoInc
  /\ phase' = IF okIns THEN "listening" ELSE "exited"
  /\ resp' = [op |-> "ensureSchema", ok |-> okIns]
  /\ UNCHANGED <<attempt, users, cards, session, pending>>

\* The process is started again: a new process, an empty session store.
Restart ==
  /\ phase \in {"listening", "exited"}
  /\ phase' = "connecting"
  /\ attempt' = 1
  /\ session' = [s \in Sessions |-> Anonymous]
  /\ pending' = [s \in Sessions |-> Idle]
  /\ resp' = [op |-> "start"]
  /\ UNCHANGED store

\* -------------------------------------------------------------- responses
\* res.render(view, { error: null })
NoError == "null"

\* res.redirect(to)
Redirect(op, s, to) == [op |-> op, s |-> s, kind |-> "redirect", to |-> to]

\* res.render(view, { error })
Render(op, s, view, error) ==
  [op |-> op, s |-> s, kind |-> "render", view |-> view, error |-> error]

\* The handler's promise rejects outside any try/catch: no response is sent.
\* error: what the statement threw.
Rejected(op, s, error) == [op |-> op, s |-> s, kind |-> "rejected", error |-> error]

DbUnavailable == "ECONNREFUSED"

NoReferencedRow == "ER_NO_REFERENCED_ROW_2"

\* What a statement writing category_id throws, if anything.
CardError(dbOk, category_id) ==
  IF ~dbOk THEN DbUnavailable
  ELSE IF ~FkCardsCategoryOk(category_id) THEN NoReferencedRow
  ELSE NoError

\* A statement of a handler awaited: the request is still in flight.
Awaiting(op, s) == [op |-> op, s |-> s, kind |-> "await"]

\* An unhandled rejection ends the process or is only logged, depending on
\* the runtime's unhandled-rejections mode.
AfterRejection ==
  \/ /\ phase' = phase
     /\ session' = session
     /\ pending' = pending
  \/ /\ phase' = "exited"
     /\ session' = [s \in Sessions |-> Anonymous]
     /\ pending' = [s \in Sessions |-> Idle]

\* A client sends its next request once the previous one is answered.
Ready(s) == phase = "listening" /\ pending[s] = Idle

\* Mutant of Unauthenticated: the gate lets every request through.
UnauthenticatedNever(s) == FALSE

\* requireAuth: !req.session.userId
Unauthenticated(s) == session[s] = Anonymous

\* ------------------------------------------------------------ POST /login
InvalidCredentials == "Identifiants invalides."

\* Mutant of LoginError: the unknown email gets a message of its own.
LoginErrorLeaky(found, matches) ==
  IF ~found THEN "Email inconnu."
  ELSE IF ~matches THEN InvalidCredentials
  ELSE NoError

\* The message of a login that does not succeed: no row for the email, or
\* bcrypt.compare false.
LoginError(found, matches) ==
  IF ~found THEN InvalidCredentials
  ELSE IF ~matches THEN InvalidCredentials
  ELSE NoError

Login(s, form, dbOk) ==
  LET email == form[1]
      password == form[2]
      rows == UsersByEmail(email)
      user == CHOOSE u \in rows : TRUE
      found == rows # {}
      matches == found /\ Compare(password, user.password_hash)
  IN
  /\ Ready(s)
  /\ IF email = Empty \/ password = Empty
       THEN /\ resp' = Render("login", s, "login",
                              "Merci de renseigner email et mot de passe.")
            /\ session' = session
       ELSE IF ~dbOk
       THEN /\ resp' = Render("login", s, "login",
                              "Erreur serveur, veuillez reessayer.")
            /\ session' = session
       ELSE IF ~found \/ ~matches
       THEN /\ resp' = Render("login", s, "login", LoginError(found, matches))
            /\ session' = session
       ELSE /\ session' = [session EXCEPT ![s] = user.id]
            /\ resp' = Redirect("login", s, "/dashboard")
  /\ UNCHANGED <<phase, attempt, store, pending>>

\* --------------------------------------------------------- POST /register
DuplicateEmail == "Cet email est deja utilise."

\* Validation and SELECT id FROM users WHERE email = ?
RegisterSelect(s, form, dbOk) ==
  LET name == form[1]
      email == form[2]
      password == form[3]
  IN
  /\ Ready(s)
  /\ IF name = Empty \/ email = Empty \/ password = Empty
       THEN /\ resp' = Render("register", s, "register",
                              "Tous les champs sont obligatoires.")
            /\ pending' = pending
       ELSE IF ~dbOk
       THEN /\ resp' = Render("register", s, "register",
                              "Erreur serveur, veuillez reessayer.")
            /\ pending' = pending
       ELSE IF EmailTaken(email)
       THEN /\ resp' = Render("register", s, "register", DuplicateEmail)
            /\ pending' = pending
       ELSE /\ pending' = [pending EXCEPT ![s] = [pc |-> "insertUser", form |-> form]]
            /\ resp' = Awaiting("register", s)
  /\ UNCHANGED <<phase, attempt, store, session>>

\* Mutant of RegisterInsertUser: the row is written although the statement
\* is reported as failed.
RegisterInsertUserThenFail(s, dbOk) ==
  LET form == pending[s].form
      id == autoInc.users + 1
      row == [id |-> id, name |-> form[1], email |-> form[2],
              password_hash |-> Hash(form[3])]
  IN
  /\ phase = "listening"
  /\ pending[s].pc = "insertUser"
  /\ IF UsersByEmail(form[2]) # {}
       THEN /\ resp' = Render("register", s, "register",
                              "Erreur serveur, veuillez reessayer.")
            /\ pending' = [pending EXCEPT ![s] = Idle]
            /\ UNCHANGED <<users, autoInc>>
       ELSE /\ users' = users \cup {row}
            /\ autoInc' = [autoInc EXCEPT !.users = id]
            /\ IF dbOk
                 THEN /\ pending' = [pending EXCEPT ![s] =
                                       [pc |-> "insertCategory", form |-> form,
                                        insertId |-> id]]
                      /\ resp' = Awaiting("register", s)
                 ELSE /\ pending' = [pending EXCEPT ![s] = Idle]
                      /\ resp' = Render("register", s, "register",
                                        "Erreur serveur, veuillez reessayer.")
  /\ UNCHANGED <<phase, attempt, schema, categories, cards, session>>

\* bcrypt.hash and INSERT INTO users (name, email, password_hash)
RegisterInsertUser(s, dbOk) ==
  LET form == pending[s].form
      id == autoInc.users + 1
  IN
  /\ phase = "listening"
  /\ pending[s].pc = "insertUser"
  /\ IF ~dbOk \/ UsersByEmail(form[2]) # {}
       THEN /\ resp' = Render("register", s, "register",
                              "Erreur serveur, veuillez reessayer.")
            /\ pending' = [pending EXCEPT ![s] = Idle]
            /\ UNCHANGED <<users, autoInc>>
       ELSE /\ users' = users \cup {[id |-> id, name |-> form[1], email |-> form[2],
                                      password_hash |-> Hash(form[3])]}
            /\ autoInc' = [autoInc EXCEPT !.users = id]
            /\ pending' = [pending EXCEPT ![s] =
                             [pc |-> "insertCategory", form |-> form, insertId |-> id]]
            /\ resp' = Awaiting("register", s)
  /\ UNCHANGED <<phase, attempt, schema, categories, cards, session>>

\* INSERT INTO categories (user_id, name) VALUES (insertId, 'General'), then
\* req.session.userId = insertId
RegisterInsertCategory(s, dbOk) ==
  LET uid == pending[s].insertId
      id == autoInc.categories + 1
  IN
  /\ phase = "listening"
  /\ pending[s].pc = "insertCategory"
  /\ pending' = [pending EXCEPT ![s] = Idle]
  /\ IF ~dbOk \/ CategoryExists(uid, General)
       THEN /\ resp' = Render("register", s, "register",
                              "Erreur serveur, veuillez reessayer.")
            /\ UNCHANGED <<categories, autoInc, session>>
       ELSE /\ categories' = categories \cup {[id |-> id, user_id |-> uid, name |-> General]}
            /\ autoInc' = [autoInc EXCEPT !.categories = id]
            /\ session' = [session EXCEPT ![s] = uid]
            /\ resp' = Redirect("register", s, "/dashboard")
  /\ UNCHANGED <<phase, attempt, schema, users, cards>>

\* ----------------------------------------------------------- POST /logout
\* Mutant of Logout: the redirect without req.session.destroy.
LogoutKeepsSession(s) ==
  /\ Ready(s)
  /\ session' = session
  /\ resp' = Redirect("logout", s, "/login")
  /\ UNCHANGED <<phase, attempt, store, pending>>

Logout(s) ==
  /\ Ready(s)
  /\ session' = [session EXCEPT ![s] = Anonymous]
  /\ resp' = Redirect("logout", s, "/login")
  /\ UNCHANGED <<phase, attempt, store, pending>>

\* --------------------------------------------------------- GET /dashboard
NullText == "NULL"

\* LEFT JOIN categories ON cards.category_id = categories.id
Joined(card) == {c \in categories : c.id = card.category_id}

\* SELECT cards.id, cards.title, cards.content, categories.id AS category_id,
\* categories.name AS category_name ... WHERE cards.user_id = ?
SelectCards(uid) ==
  {[id |-> card.id, title |-> card.title, content |-> card.content,
    category_id |-> IF Joined(card) = {} THEN NULL
                    ELSE (CHOOSE c \in Joined(card) : TRUE).id,
    category_name |-> IF Joined(card) = {} THEN NullText
                      ELSE (CHOOSE c \in Joined(card) : TRUE).name]
   : card \in {k \in cards : k.user_id = uid}}

\* SELECT id, name FROM categories WHERE user_id = ?
SelectCategories(uid) ==
  {[id |-> c.id, name |-> c.name] : c \in {k \in categories : k.user_id = uid}}

Dashboard(s, dbOk) ==
  /\ Ready(s)
  /\ IF Unauthenticated(s)
       THEN /\ resp' = Redirect("dashboard", s, "/login")
            /\ UNCHANGED <<phase, session, pending>>
       ELSE IF ~dbOk
       THEN /\ resp' = Rejected("dashboard", s, DbUnavailable)
            /\ AfterRejection
       ELSE \* res.render("dashboard", { cards, categories }): the rows are
            \* SelectCards and SelectCategories of the session's user
            /\ resp' = Render("dashboard", s, "dashboard", NoError)
            /\ UNCHANGED <<phase, session, pending>>
  /\ UNCHANGED <<attempt, store>>

\* ------------------------------------------------------------ POST /cards
CreateCard(s, text, categoryId, dbOk) ==
  LET title == text[1]
      content == text[2]
      id == autoInc.cards + 1
  IN
  /\ Ready(s)
  /\ IF Unauthenticated(s)
       THEN /\ resp' = Redirect("createCard", s, "/login")
            /\ UNCHANGED <<phase, session, pending, cards, autoInc>>
       ELSE IF title = Empty \/ content = Empty
       THEN /\ resp' = Redirect("createCard", s, "/dashboard")
            /\ UNCHANGED <<phase, session, pending, cards, autoInc>>
       ELSE IF CardError(dbOk, OrNull(categoryId)) # NoError
       THEN /\ resp' = Rejected("createCard", s, CardError(dbOk, OrNull(categoryId)))
            /\ AfterRejection
            /\ UNCHANGED <<cards, autoInc>>
       ELSE /\ autoInc.cards < MaxCards
            /\ cards' = cards \cup {[id |-> id, user_id |-> session[s],
                                      category_id |-> OrNull(categoryId),
                                      title |-> title, content |-> content]}
            /\ autoInc' = [autoInc EXCEPT !.cards = id]
            /\ resp' = Redirect("createCard", s, "/dashboard")
            /\ UNCHANGED <<phase, session, pending>>
  /\ UNCHANGED <<attempt, schema, users, categories>>

\* -------------------------------------------------------- POST /cards/:id
\* Mutant of UpdateMatches: WHERE id = ? alone.
UpdateMatchesAnyOwner(card, id, uid) == card.id = id

\* WHERE id = ? AND user_id = ?
UpdateMatches(card, id, uid) == card.id = id /\ card.user_id = uid

\* The responses of POST /cards/:id, with the :id of the request
RedirectUpdate(s, id, to) ==
  [op |-> "updateCard", s |-> s, kind |-> "redirect", to |-> to, id |-> id]

RejectedUpdate(s, id, error) ==
  [op |-> "updateCard", s |-> s, kind |-> "rejected", error |-> error, id |-> id]

UpdateCard(s, id, text, categoryId, dbOk) ==
  LET title == text[1]
      content == text[2]
      matched == {c \in cards : UpdateMatches(c, id, session[s])}
  IN
  /\ Ready(s)
  /\ IF Unauthenticated(s)
       THEN /\ resp' = RedirectUpdate(s, id, "/login")
            /\ UNCHANGED <<phase, session, pending, cards>>
       ELSE IF title = Empty \/ content = Empty
       THEN /\ resp' = RedirectUpdate(s, id, "/dashboard")
            /\ UNCHANGED <<phase, session, pending, cards>>
       ELSE IF ~dbOk \/ (matched # {} /\ CardError(dbOk, OrNull(categoryId)) # NoError)
       THEN /\ resp' = RejectedUpdate(s, id, CardError(dbOk, OrNull(categoryId)))
            /\ AfterRejection
            /\ UNCHANGED cards
       ELSE /\ cards' = (cards \ matched) \cup
                         {[c EXCEPT !.title = title, !.content = content,
                                    !.category_id = OrNull(categoryId)] : c \in matched}
            /\ resp' = RedirectUpdate(s, id, "/dashboard")
            /\ UNCHANGED <<phase, session, pending>>
  /\ UNCHANGED <<attempt, schema, users, categories, autoInc>>

\* ------------------------------------------------------- POST /categories
\* Mutant of InsertIgnoreCategory: a plain INSERT on a table without the key.
InsertCategoryAlways(cats, id, uid, name) ==
  cats \cup {[id |-> id, user_id |-> uid, name |-> name]}

\* INSERT IGNORE INTO categories (user_id, name) VALUES (?, ?)
InsertIgnoreCategory(cats, id, uid, name) ==
  IF \E c \in cats : c.user_id = uid /\ c.name = name
    THEN cats
    ELSE cats \cup {[id |-> id, user_id |-> uid, name |-> name]}

\* Mutant of CreateCategory: the name is not validated.
CreateCategoryUnvalidated(s, name, dbOk) ==
  LET id == autoInc.categories + 1
      after == InsertIgnoreCategory(categories, id, session[s], name)
  IN
  /\ Ready(s)
  /\ IF Unauthenticated(s)
       THEN /\ resp' = Redirect("createCategory", s, "/login")
            /\ UNCHANGED <<phase, session, pending, categories, autoInc>>
       ELSE IF ~dbOk
       THEN /\ resp' = Rejected("createCategory", s, DbUnavailable)
            /\ AfterRejection
            /\ UNCHANGED <<categories, autoInc>>
       ELSE /\ categories' = after
            /\ autoInc' = IF after = categories THEN autoInc
                           ELSE [autoInc EXCEPT !.categories = id]
            /\ resp' = Redirect("createCategory", s, "/dashboard")
            /\ UNCHANGED <<phase, session, pending>>
  /\ UNCHANGED <<attempt, schema, users, cards>>

CreateCategory(s, name, dbOk) ==
  LET id == autoInc.categories + 1
      after == InsertIgnoreCategory(categories, id, session[s], name)
  IN
  /\ Ready(s)
  /\ IF Unauthenticated(s)
       THEN /\ resp' = Redirect("createCategory", s, "/login")
            /\ UNCHANGED <<phase, session, pending, categories, autoInc>>
       ELSE IF name = Empty
       THEN /\ resp' = Redirect("createCategory", s, "/dashboard")
            /\ UNCHANGED <<phase, session, pending, categories, autoInc>>
       ELSE IF ~dbOk
       THEN /\ resp' = Rejected("createCategory", s, DbUnavailable)
            /\ AfterRejection
            /\ UNCHANGED <<categories, autoInc>>
       ELSE /\ categories' = after
            /\ autoInc' = IF after = categories THEN autoInc
                           ELSE [autoInc EXCEPT !.categories = id]
            /\ resp' = Redirect("createCategory", s, "/dashboard")
            /\ UNCHANGED <<phase, session, pending>>
  /\ UNCHANGED <<attempt, schema, users, cards>>

\* ------------------------------------------------------------------- Next
Next ==
  \/ \E dbOk \in BOOLEAN : ConnectAttempt(dbOk)
  \/ \E failAt \in 0..4 : EnsureSchema(failAt)
  \/ Restart
  \/ \E s \in Clients, r \in LoginRequests : Login(s, r[1], r[2])
  \/ \E s \in Clients, r \in RegisterRequests : RegisterSelect(s, r[1], r[2])
  \/ \E s \in Clients, dbOk \in BOOLEAN : RegisterInsertUser(s, dbOk)
  \/ \E s \in Clients, dbOk \in BOOLEAN : RegisterInsertCategory(s, dbOk)
  \/ \E s \in Clients : Logout(s)
  \/ \E s \in Clients, dbOk \in BOOLEAN : Dashboard(s, dbOk)
  \/ \E s \in Clients, r \in CardRequests : CreateCard(s, r[1][1], r[1][2], r[2])
  \/ \E s \in Clients, id \in 1..MaxCards, r \in CardRequests :
       UpdateCard(s, id, r[1][1], r[1][2], r[2])
  \/ \E s \in Clients, r \in CategoryRequests : CreateCategory(s, r[1], r[2])

Spec == Init /\ [][Next]_vars

\* Registration on two sessions at once: the statements of two register
\* requests interleave on the event loop.
NextRegister ==
  \/ \E dbOk \in BOOLEAN : ConnectAttempt(dbOk)
  \/ \E failAt \in 0..4 : EnsureSchema(failAt)
  \/ Restart
  \/ \E s \in Sessions, r \in RegisterRequests : RegisterSelect(s, r[1], r[2])
  \/ \E s \in Sessions, dbOk \in BOOLEAN : RegisterInsertUser(s, dbOk)
  \/ \E s \in Sessions, dbOk \in BOOLEAN : RegisterInsertCategory(s, dbOk)

SpecRegister == Init /\ [][NextRegister]_vars

\* The startup chain alone.  Every awaited statement settles, so a pass of
\* the retry loop and a run of ensureSchema that can be taken are taken.
NextStartup ==
  \/ \E dbOk \in BOOLEAN : ConnectAttempt(dbOk)
  \/ \E failAt \in 0..4 : EnsureSchema(failAt)
  \/ Restart

SpecStartup ==
  /\ Init
  /\ [][NextStartup]_vars
  /\ WF_vars(\E dbOk \in BOOLEAN : ConnectAttempt(dbOk))
  /\ WF_vars(\E failAt \in 0..4 : EnsureSchema(failAt))

\* ================================================================= claims
Owned(rows, uid) == {r \in rows : r.user_id = uid}

\* What GET /dashboard has just rendered to the session of the last step.
DashboardRendered == resp.op = "dashboard" /\ resp.kind = "render"

\* C1: read isolation. The dashboard rendered for a session authenticated as
\* U shows only cards owned by U, and only category data (the category list,
\* and category_id/category_name joined to a card) of categories owned by U.
C1_ReadIsolation ==
  DashboardRendered =>
    LET U == session[resp.s] IN
    /\ \A row \in SelectCards(U) :
         /\ \E card \in Owned(cards, U) : card.id = row.id
         /\ row.category_id # NULL =>
              \E c \in Owned(categories, U) :
                 c.id = row.category_id /\ c.name = row.category_name
    /\ \A row \in SelectCategories(U) :
         \E c \in Owned(categories, U) : c.id = row.id /\ c.name = row.name

\* C2: update isolation. A POST /cards/:id step by a session authenticated
\* as U changes no card other than the one whose id is :id and whose user_id
\* is U, and adds or removes none; when no card has that id and owner (the
\* id does not exist or belongs to another user) every card row is unchanged
\* and the response is the redirect to /dashboard, unless the database was
\* unavailable.
C2_UpdateIsolation ==
  [][(resp'.op = "updateCard" /\ session[resp'.s] # Anonymous) =>
       LET U == session[resp'.s]
           matching == {c \in cards : c.id = resp'.id /\ c.user_id = U}
       IN
       /\ cards \ matching \subseteq cards'
       /\ \A c \in cards' \ cards : c.id = resp'.id /\ c.user_id = U
       /\ {c.id : c \in cards'} = {c.id : c \in cards}
       /\ matching = {} =>
            /\ cards' = cards
            /\ \/ resp' = RedirectUpdate(resp'.s, resp'.id, "/dashboard")
               \/ resp' = RejectedUpdate(resp'.s, resp'.id, DbUnavailable)]_vars

\* C2 witness: an update aimed at another user's card was answered with the
\* redirect to /dashboard.
C2_Witness ==
  /\ resp.op = "updateCard"
  /\ resp.kind = "redirect"
  /\ resp.to = "/dashboard"
  /\ session[resp.s] # Anonymous
  /\ \E c \in cards : c.id = resp.id /\ c.user_id # session[resp.s]

\* C3: no cross-user categorization. Every card with a non-null category_id
\* references a category whose user_id is the card's user_id.
C3_NoCrossUserCategory ==
  \A card \in cards :
     card.category_id # NULL =>
       \E c \in categories : c.id = card.category_id /\ c.user_id = card.user_id

\* C4: authorization gate. A request on an Anonymous session to a protected
\* route is answered with the redirect to /login and leaves the users,
\* categories and cards tables unchanged.
C4_AuthorizationGate ==
  [][(/\ resp'.op \in {"dashboard", "createCard", "updateCard", "createCategory"}
      /\ session[resp'.s] = Anonymous) =>
       /\ resp'.kind = "redirect"
       /\ resp'.to = "/login"
       /\ users' = users
       /\ categories' = categories
       /\ cards' = cards]_vars

\* C4 witness: an Anonymous session asked to create a card while cards and
\* categories of registered users exist, and was sent to /login.
C4_Witness ==
  /\ resp.op = "createCard"
  /\ resp.kind = "redirect"
  /\ resp.to = "/login"
  /\ session[resp.s] = Anonymous
  /\ cards # {}
  /\ categories # {}

Generals(uid) == {c \in categories : c.user_id = uid /\ c.name = General}

\* C5: default category. No user ever has two categories named General;
\* the user of a registration that has just completed has exactly one, and
\* so has every user when a run of ensureSchema has just completed.
C5_DefaultCategory ==
  /\ \A u \in users : Cardinality(Generals(u.id)) <= 1
  /\ (resp.op = "register" /\ resp.kind = "redirect") =>
       /\ \E u \in users : u.id = session[resp.s]
       /\ Cardinality(Generals(session[resp.s])) = 1
  /\ (resp.op = "ensureSchema" /\ resp.ok) =>
       \A u \in users : Cardinality(Generals(u.id)) = 1

\* C5 witness: a run of ensureSchema has completed on a store holding two
\* users.
C5_Witness ==
  /\ resp.op = "ensureSchema"
  /\ resp.ok
  /\ Cardinality(users) = 2

UniqueEmails(us) == \A u, v \in us : u.email = v.email => u = v

NonEmpty(form) == \A i \in DOMAIN form : form[i] # Empty

\* C6: duplicate email. A register request with non-empty fields and an
\* email of an existing user row is answered with the duplicate-email
\* message on the register form, adds no user row and no category row and
\* leaves the session unchanged; no two user rows ever share an email.
C6_DuplicateEmail ==
  [][/\ UniqueEmails(users')
     /\ resp'.op = "register" =>
          \A r \in RegisterRequests :
             (/\ r[2]
              /\ NonEmpty(r[1])
              /\ \E u \in users : u.email = r[1][2]
              /\ RegisterSelect(resp'.s, r[1], r[2])) =>
               /\ resp' = Render("register", resp'.s, "register", DuplicateEmail)
               /\ users' = users
               /\ categories' = categories
               /\ session' = session]_vars

\* C6 witness: a registration was refused as a duplicate of the one user
\* row, which a registration still in flight on the other session inserted.
C6_Witness ==
  /\ resp.op = "register"
  /\ resp.kind = "render"
  /\ resp.error = DuplicateEmail
  /\ Cardinality(users) = 1
  /\ \E s \in Sessions : s # resp.s /\ pending[s].pc = "insertCategory"

\* A login body with both fields that the store does not accept.
LoginFails(form) ==
  /\ NonEmpty(form)
  /\ \A u \in users : u.email = form[1] => u.password_hash # Hash(form[2])

\* What POST /login answers to a failing body, from the code's two branches.
LoginFailure(s, form) ==
  Render("login", s, "login",
         LoginError(\E u \in users : u.email = form[1], FALSE))

\* C7: indistinguishable login failure. A login with a registered email and
\* a wrong password and a login with an unregistered email get the same
\* response, the one every failing body gets in that state, and leave the
\* session and the store unchanged.
C7_LoginFailure ==
  [][resp'.op = "login" =>
       \A r \in LoginRequests :
          (r[2] /\ LoginFails(r[1]) /\ Login(resp'.s, r[1], r[2])) =>
            /\ session' = session
            /\ store' = store
            /\ resp'.kind = "render"
            /\ \A form \in LoginForms :
                 LoginFails(form) => resp' = LoginFailure(resp'.s, form)]_vars

\* C7 witness: a login was refused in a state where one email is registered
\* and the other is not.
C7_Witness ==
  /\ resp.op = "login"
  /\ resp.kind = "render"
  /\ resp.error = InvalidCredentials
  /\ Cardinality(users) = 1

\* C8: session state machine. While the process runs, a session's userId
\* becomes U only by a successful login whose email and password are those
\* of user row U or by the registration that inserted user row U; a login or
\* registration answered with an error leaves every session unchanged; and a
\* session becomes Anonymous only by its logout.
C8_SessionStateMachine ==
  [][(phase = "listening" /\ phase' = "listening") =>
       /\ (resp'.op \in {"login", "register"} /\ resp'.kind = "render") =>
            session' = session
       /\ \A s \in Sessions :
            /\ (session'[s] # session[s] /\ session'[s] # Anonymous) =>
                 /\ resp'.s = s
                 /\ resp'.kind = "redirect"
                 /\ \/ /\ resp'.op = "login"
                       /\ \A r \in LoginRequests :
                            Login(s, r[1], r[2]) =>
                              \E u \in users :
                                 /\ u.id = session'[s]
                                 /\ u.email = r[1][1]
                                 /\ u.password_hash = Hash(r[1][2])
                    \/ /\ resp'.op = "register"
                       /\ pending[s].pc = "insertCategory"
                       /\ pending[s].insertId = session'[s]
                       /\ \E u \in users :
                            u.id = session'[s] /\ u.email = pending[s].form[2]
            /\ (session[s] # Anonymous /\ session'[s] = Anonymous) =>
                 resp'.op = "logout" /\ resp'.s = s]_vars

\* C8 witness: a login has just authenticated a session.
C8_Witness ==
  /\ resp.op = "login"
  /\ resp.kind = "redirect"
  /\ session[resp.s] # Anonymous

UniqueCategoryNames(cats) ==
  \A c, d \in cats : (c.user_id = d.user_id /\ c.name = d.name) => c = d

\* C9: insert-or-ignore. A createCategory request by user U with a non-empty
\* name that the database executes is answered with the redirect to
\* /dashboard; it leaves the categories unchanged when U has the name, and
\* otherwise adds exactly one row, owned by U and of that name; no two
\* categories ever share (user_id, name).
C9_InsertOrIgnore ==
  [][/\ UniqueCategoryNames(categories')
     /\ (resp'.op = "createCategory" /\ session[resp'.s] # Anonymous) =>
          \A r \in CategoryRequests :
             (r[2] /\ r[1] # Empty /\ CreateCategory(resp'.s, r[1], r[2])) =>
               LET U == session[resp'.s]
                   added == categories' \ categories
               IN
               /\ resp' = Redirect("createCategory", resp'.s, "/dashboard")
               /\ categories \subseteq categories'
               /\ IF \E c \in categories : c.user_id = U /\ c.name = r[1]
                    THEN added = {}
                    ELSE /\ Cardinality(added) = 1
                         /\ \A c \in added : c.user_id = U /\ c.name = r[1]]_vars

\* C9 witness: a category request was answered while two users hold a
\* category of the same name.
C9_Witness ==
  /\ resp.op = "createCategory"
  /\ resp.kind = "redirect"
  /\ resp.to = "/dashboard"
  /\ \E c, d \in categories : c.user_id # d.user_id /\ c.name = d.name

\* The store ensureSchema aims at: its tables and column exist and every user
\* has a default category.
Bootstrapped(sch, us, cats) ==
  /\ {"users", "cards", "categories", "cards.category_id"} \subseteq sch
  /\ \A u \in us : \E c \in cats : c.user_id = u.id /\ c.name = General

\* C10: bootstrap idempotence. A completed run of ensureSchema leaves a store
\* on which a run of ensureSchema changes nothing: no table, column or
\* category row is added.
C10_BootstrapIdempotent ==
  [][resp'.op = "ensureSchema" =>
       /\ resp'.ok => Bootstrapped(schema', users', categories')
       /\ Bootstrapped(schema, users, categories) => store' = store]_vars

\* C10 witness: ensureSchema has completed on a store that an earlier run
\* had completed on and that holds registered users.
C10_Witness ==
  /\ resp.op = "ensureSchema"
  /\ resp.ok
  /\ schema = SchemaFile
  /\ users # {}
  /\ autoInc.categories = Cardinality(users)

\* C11: logout. A POST /logout step leaves its session Anonymous and is
\* answered with the redirect to /login, whether the session was
\* Authenticated or already Anonymous, and leaves the users, categories and
\* cards tables unchanged.
C11_Logout ==
  [][resp'.op = "logout" =>
       /\ session'[resp'.s] = Anonymous
       /\ \A s \in Sessions \ {resp'.s} : session'[s] = session[s]
       /\ resp' = Redirect("logout", resp'.s, "/login")
       /\ users' = users
       /\ categories' = categories
       /\ cards' = cards]_vars

\* C11 witness: a logout was answered while a registered user with a card
\* exists and no session is authenticated.
C11_Witness ==
  /\ resp.op = "logout"
  /\ resp.kind = "redirect"
  /\ resp.to = "/login"
  /\ session[resp.s] = Anonymous
  /\ \E card \in cards : \E u \in users : u.id = card.user_id

\* C12: startup. The attempt counter stays within 1..Retries; a successful
\* attempt ends the loop (ensureSchema is next), a failed attempt before the
\* last is followed by the next attempt, the last failed attempt by the
\* process exiting; the server starts listening only in the step in which
\* ensureSchema completes, which follows a successful attempt; and every
\* startup reaches listening or exited.
C12_Startup ==
  /\ [](attempt \in 1..Retries)
  /\ [][/\ resp'.op = "connect" =>
            /\ phase = "connecting"
            /\ resp'.attempt = attempt
            /\ phase' = IF resp'.ok THEN "bootstrapping"
                         ELSE IF attempt = Retries THEN "exited"
                         ELSE "connecting"
            /\ attempt' = IF phase' = "connecting" THEN attempt + 1 ELSE attempt
        /\ (phase # "bootstrapping" /\ phase' = "bootstrapping") =>
             (resp'.op = "connect" /\ resp'.ok)
        /\ (phase # "listening" /\ phase' = "listening") =>
             (phase = "bootstrapping" /\ resp'.op = "ensureSchema" /\ resp'.ok)]_vars
  /\ (phase = "connecting") ~> (phase \in {"listening", "exited"})

\* C12 witness: the process has exited after the last attempt failed.
C12_Witness ==
  /\ phase = "exited"
  /\ resp.op = "connect"
  /\ ~resp.ok
  /\ resp.attempt = Retries

\* C13: referential integrity. In every reachable state each card's user_id
\* is the id of an existing user and each non-null category_id is the id of
\* an existing category, whichever way the schema was created.
C13_ReferentialIntegrity ==
  \A card \in cards :
     /\ \E u \in users : u.id = card.user_id
     /\ card.category_id # NULL => \E c \in categories : c.id = card.category_id

\* C14: bootstrap completeness. A run of ensureSchema in which the database
\* rejects no statement for being unavailable completes, whatever tables and
\* columns the store lacked, and leaves every table and cards.category_id
\* in place and a default category for every user.
C14_BootstrapCompleteness ==
  [][(resp'.op = "ensureSchema" /\ EnsureSchema(0)) =>
       /\ resp'.ok
       /\ phase' = "listening"
       /\ {"users", "categories", "cards", "favorites", "cards.category_id"}
             \subseteq schema'
       /\ \A u \in users' :
            \E c \in categories' : c.user_id = u.id /\ c.name = General]_vars

Requested ==
  {"login", "register", "dashboard", "createCard", "updateCard", "createCategory"}

ServerError == "Erreur serveur, veuillez reessayer."

\* C15: database failure after startup. No step of a request ends the
\* listening process; and a login or register step whose statement the
\* database rejects as unavailable is answered with the generic server
\* error on its form and leaves every session unchanged.
C15_DatabaseFailure ==
  [][(phase = "listening" /\ resp'.op \in Requested) =>
       /\ phase' = "listening"
       /\ (resp'.op = "login" /\ Login(resp'.s, <<"a@x", "p1">>, FALSE)) =>
            /\ resp' = Render("login", resp'.s, "login", ServerError)
            /\ session' = session
       /\ (/\ resp'.op = "register"
           /\ \/ RegisterSelect(resp'.s, <<"n", "a@x", "p1">>, FALSE)
              \/ RegisterInsertUser(resp'.s, FALSE)
              \/ RegisterInsertCategory(resp'.s, FALSE)) =>
            /\ resp' = Render("register", resp'.s, "register", ServerError)
            /\ session' = session]_vars

\* A card body without title or without content.
BlankCard(text) == text[1] = Empty \/ text[2] = Empty

\* What a validation no-op leaves alone: the tables, the sessions, the
\* process.
NoOp == store' = store /\ session' = session /\ pending' = pending /\ phase' = phase

\* The requests that lack a required field.
BlankCardRequests == {r \in CardRequests : BlankCard(r[1][1])}

BlankCategoryRequests == {r \in CategoryRequests : r[1] = Empty}

BlankRegisterRequests == {r \in RegisterRequests : ~NonEmpty(r[1])}

BlankLoginRequests == {r \in LoginRequests : ~NonEmpty(r[1])}

\* C16: validation no-ops. On an authenticated session, createCard and
\* updateCard without title or content and createCategory without name are
\* answered with the redirect to /dashboard and change neither the tables nor
\* the session; register with an empty field and login with an empty email
\* or password re-render their form with an error and change neither.
\* Stated per step: the step is such a no-op, or no request lacking a
\* required field can have produced it.
C16_ValidationNoOps ==
  [][CASE resp'.op = "createCard" ->
            \/ session[resp'.s] = Anonymous
            \/ resp' = Redirect("createCard", resp'.s, "/dashboard") /\ NoOp
            \/ \A r \in BlankCardRequests :
                  ~CreateCard(resp'.s, r[1][1], r[1][2], r[2])
       [] resp'.op = "updateCard" ->
            \/ session[resp'.s] = Anonymous
            \/ resp' = RedirectUpdate(resp'.s, resp'.id, "/dashboard") /\ NoOp
            \/ \A r \in BlankCardRequests :
                  ~UpdateCard(resp'.s, resp'.id, r[1][1], r[1][2], r[2])
       [] resp'.op = "createCategory" ->
            \/ session[resp'.s] = Anonymous
            \/ resp' = Redirect("createCategory", resp'.s, "/dashboard") /\ NoOp
            \/ \A r \in BlankCategoryRequests :
                  ~CreateCategory(resp'.s, r[1], r[2])
       [] resp'.op = "register" ->
            \/ /\ resp'.kind = "render"
               /\ resp'.view = "register"
               /\ resp'.error # NoError
               /\ NoOp
            \/ \A r \in BlankRegisterRequests :
                  ~RegisterSelect(resp'.s, r[1], r[2])
       [] resp'.op = "login" ->
            \/ /\ resp'.kind = "render"
               /\ resp'.view = "login"
               /\ resp'.error # NoError
               /\ NoOp
            \/ \A r \in BlankLoginRequests : ~Login(resp'.s, r[1], r[2])
       [] OTHER -> TRUE]_vars

\* C16 witness: a category request of an authenticated session was answered
\* with the redirect to /dashboard although its user has no category: the
\* request had no name.
C16_Witness ==
  /\ resp.op = "createCategory"
  /\ resp.kind = "redirect"
  /\ resp.to = "/dashboard"
  /\ session[resp.s] # Anonymous
  /\ \A c \in categories : c.user_id # session[resp.s]

\* C17: concurrent registration. When two register requests of the same new
\* email have both passed the existence check, the first INSERT INTO users
\* wins; the other request's INSERT adds no row, is answered with an error
\* on the register form and leaves every session unchanged; the winner's
\* last statement, when the database executes it, creates the one default
\* category of the new user and authenticates the winner's session only.
\* No two users share an email and no user has two default categories.
C17_ConcurrentRegistration ==
  [][/\ UniqueEmails(users')
     /\ \A u \in users' : Cardinality({c \in categories' :
                                          c.user_id = u.id /\ c.name = General}) <= 1
     /\ resp'.op = "register" =>
          LET s == resp'.s IN
          /\ (/\ pending[s].pc = "insertUser"
              /\ \E u \in users : u.email = pending[s].form[2]) =>
               /\ resp' = Render("register", s, "register", ServerError)
               /\ pending'[s] = Idle
               /\ session' = session
               /\ users' = users
               /\ categories' = categories
          /\ (pending[s].pc = "insertCategory" /\ RegisterInsertCategory(s, TRUE)) =>
               /\ resp' = Redirect("register", s, "/dashboard")
               /\ session' = [session EXCEPT ![s] = pending[s].insertId]
               /\ users' = users
               /\ Cardinality({c \in categories' :
                                 c.user_id = pending[s].insertId /\ c.name = General}) = 1
               /\ Cardinality(categories') = Cardinality(categories) + 1]_vars

\* C17 witness: two register requests of the same email are in flight, both
\* past the existence check; one has inserted the user row, the other is
\* about to send its INSERT.
C17_Witness ==
  \E w, l \in Sessions :
     /\ pending[w].pc = "insertCategory"
     /\ pending[l].pc = "insertUser"
     /\ pending[l].form[2] = pending[w].form[2]
     /\ \E u \in users : u.id = pending[w].insertId /\ u.email = pending[l].form[2]

\* The register request of session s that the step ends with an error.
RegisterFailed(s) == resp'.op = "register" /\ resp'.s = s /\ resp'.kind = "render"

\* C18: registration is all-or-nothing. When a register request that passed
\* the existence check ends by re-rendering the form with an error, no user
\* row holds its email, so that the email can still be registered.
C18_AllOrNothing ==
  [][\A s \in Clients :
       (RegisterFailed(s) /\ pending[s] # Idle) =>
         ~\E u \in users' : u.email = pending[s].form[2]]_vars

\* C18 amended: a register request that ends with an error adds no user row
\* in its last step and leaves the sessions unchanged; if it failed at the
\* INSERT INTO users no row holds its email; if it failed at the INSERT INTO
\* categories the user row it inserted remains, with its email and without
\* default category.
C18_PartialRegistration ==
  [][\A s \in Clients :
       RegisterFailed(s) =>
         /\ users' = users
         /\ categories' = categories
         /\ session' = session
         /\ pending'[s] = Idle
         /\ pending[s].pc = "insertUser" =>
              ~\E u \in users' : u.email = pending[s].form[2]
         /\ pending[s].pc = "insertCategory" =>
              /\ \E u \in users' :
                   u.id = pending[s].insertId /\ u.email = pending[s].form[2]
              /\ ~\E c \in categories' : c.user_id = pending[s].insertId]_vars

\* C18 witness: a registration ended with the server error and the user row
\* it inserted, the newest, has no category.
C18_Witness ==
  /\ resp.op = "register"
  /\ resp.kind = "render"
  /\ resp.error = ServerError
  /\ \E u \in users :
       /\ u.id = autoInc.users
       /\ ~\E c \in categories : c.user_id = u.id

====
